---- MODULE Spec2Model ----
(***************************************************************************)
(* Model of the redshadeutils atlas packer (src/src/packer.rs):            *)
(*   - the two normalizers gen_wl_model_from_ase_data and                  *)
(*     gen_wl_model_from_png, as operators computed the way the code does; *)
(*   - main's loop over the index entries;                                 *)
(*   - write_zip, one step per archive write.                              *)
(* Strings that the code inspects (tag names, animation ids) are sequences *)
(* of one-character strings; model ids and path components are strings.    *)
(***************************************************************************)
EXTENDS Integers, Sequences, FiniteSets, TLC

\* ------------------------------------------------------------------ bounds

\* most frames of a generated sprite sheet
MaxFrames == 2
\* most frame tags of a generated sprite sheet
MaxTags == 2
\* largest from/to of a generated frame tag
MaxIdx == 1
\* most entries of a generated index file
MaxEntries == 3
\* most models / image paths handed directly to write_zip
MaxModels == 2
\* width in bits of the scaled-down u32/i32 words of the png header
WordBits == 3

\* ------------------------------------------------------------ small helpers

Min(a, b) == IF a <= b THEN a ELSE b

RECURSIVE Pow2(_)
Pow2(n) == IF n = 0 THEN 1 ELSE 2 * Pow2(n - 1)

\* ------------------------------------------------------------- std helpers

None == [some |-> FALSE]
Some(v) == [some |-> TRUE, val |-> v]

\* the variant of strip_prefix that removes every leading repetition
\* (str::trim_start_matches), kept as an Option like strip_prefix
RECURSIVE TrimStartMatches(_, _)
TrimStartMatches(s, p) ==
    IF Len(p) > 0 /\ Len(s) >= Len(p) /\ SubSeq(s, 1, Len(p)) = p
    THEN TrimStartMatches(SubSeq(s, Len(p) + 1, Len(s)), p)
    ELSE s

StripPrefixGreedy(s, p) ==
    IF Len(s) >= Len(p) /\ SubSeq(s, 1, Len(p)) = p
    THEN Some(TrimStartMatches(s, p))
    ELSE None

\* str::strip_prefix: Some(rest) when s starts with p, None otherwise
StripPrefix(s, p) ==
    IF Len(s) >= Len(p) /\ SubSeq(s, 1, Len(p)) = p
    THEN Some(SubSeq(s, Len(p) + 1, Len(s)))
    ELSE None

\* the half-open range from..to collected
RangeExclusive(from, to) ==
    IF from >= to THEN << >> ELSE [k \in 1..(to - from) |-> from + k - 1]

\* (from..=to).collect(): ascending, step 1, empty when from > to
RangeInclusive(from, to) ==
    IF from > to THEN << >> ELSE [k \in 1..(to - from + 1) |-> from + k - 1]

\* `u as i32` on a WordBits-wide word: two's-complement reinterpretation
AsI32(u) == IF u >= Pow2(WordBits - 1) THEN u - Pow2(WordBits) ELSE u

\* ------------------------------------------------------------------ strings

AnimPrefix == <<"a", "_">>
IdleId == <<"i", "d", "l", "e">>

Ok(v) == [ok |-> TRUE, val |-> v]
Err(kind) == [ok |-> FALSE, err |-> kind]

\* --------------------------------------------------------------- normalizers

WLAnimation(id, frames) == [animation_id |-> id, frames |-> frames]

WLFrameOf(frame) ==
    [duration |-> frame.duration,
     rect |-> [x |-> frame.rect.x, y |-> frame.rect.y,
               w |-> frame.rect.w, h |-> frame.rect.h]]

RECURSIVE TagAnimations(_)
\* packer.rs 63-72: filter_map on strip_prefix("a_"), then map to WLAnimation
TagAnimations(tags) ==
    IF tags = << >> THEN << >>
    ELSE LET tag == Head(tags)
             stripped == StripPrefix(tag.name, AnimPrefix)
         IN  IF stripped.some
             THEN <<WLAnimation(stripped.val, RangeInclusive(tag.from, tag.to))>>
                  \o TagAnimations(Tail(tags))
             ELSE TagAnimations(Tail(tags))

\* the same test with the threshold off by one, either way
TooManyFramesLoose(nframes) == nframes > 2
TooManyFramesStrict(nframes) == nframes >= 1

\* packer.rs 75: ase_data.frames.len() > 1, tested once no tag qualified
TooManyFrames(nframes) == nframes > 1

\* no animation at all for a model without animation tags
NoFallback == << >>

\* packer.rs 78-81: the animation list given to a model without animation tags
IdleFallback == <<WLAnimation(IdleId, <<0>>)>>

gen_wl_model_from_ase_data(ase_data, model_id, anchor_point) ==
    LET animations == TagAnimations(ase_data.meta.tags)
    IN  IF animations = << >> /\ TooManyFrames(Len(ase_data.frames))
        THEN Err("ValidationError")
        ELSE Ok([anchor_point |-> [x |-> anchor_point.x, y |-> anchor_point.y],
                 model_id |-> model_id,
                 frames |-> [k \in 1..Len(ase_data.frames) |->
                                WLFrameOf(ase_data.frames[k])],
                 animations |-> IF animations = << >> THEN IdleFallback
                                ELSE animations])

\* png is what the file system and the png decoder give for the path:
\* [exists, decodes, width, height], width and height being u32 words
gen_wl_model_from_png(model_id, png) ==
    IF ~png.exists THEN Err("ReadError")
    ELSE IF ~png.decodes THEN Err("ReadError")
    ELSE Ok([anchor_point |-> [x |-> 0, y |-> 0],
             model_id |-> model_id,
             frames |-> <<[duration |-> 1000,
                           rect |-> [x |-> 0, y |-> 0,
                                     w |-> AsI32(png.width),
                                     h |-> AsI32(png.height)]]>>,
             animations |-> <<WLAnimation(IdleId, <<0>>)>>])

\* ------------------------------------------------------------------- paths

\* PathBuf::pop: drop the last component (nothing to drop on an empty path)
PathPop(p) == IF p = << >> THEN p ELSE SubSeq(p, 1, Len(p) - 1)

\* PathBuf::push of a relative path: append its components
PathPush(p, rel) == p \o rel

\* args[1]
IndexFilePath == <<"assets", "index.yaml">>

\* format!("{}.png", model.model_id)
PngName(model_id) == model_id \o ".png"

\* ------------------------------------------------------------- file system
\* The files the run finds on disk. Every path not listed is missing.

SheetFrame(k) ==
    [rect |-> [x |-> 16 * (k - 1), y |-> 0, w |-> 16, h |-> 24],
     duration |-> 100 * k]

SheetFrames(n) == [k \in 1..n |-> SheetFrame(k)]

Tag(name, from, to) == [name |-> name, from |-> from, to |-> to]

AseFile(nframes, tags, image) ==
    [frames |-> SheetFrames(nframes),
     meta |-> [image_path |-> image, tags |-> tags]]

HeroData ==
    AseFile(2, <<Tag(<<"w">>, 0, 1), Tag(<<"a", "_", "w">>, 0, 1),
                 Tag(<<"a", "_", "a", "_">>, 1, 1)>>, <<"hero.png">>)
SoloData == AseFile(1, << >>, <<"solo.png">>)
BadData == AseFile(2, <<Tag(<<"w">>, 0, 1)>>, <<"hero.png">>)
GhostData == AseFile(1, <<Tag(<<"a", "_", "w">>, 0, 0)>>, <<"ghost.png">>)

\* File::open + serde_json::from_reader of a sprite-sheet data file
ReadJson(path) ==
    CASE path = <<"assets", "hero.json">> -> Ok(HeroData)
      [] path = <<"assets", "solo.json">> -> Ok(SoloData)
      [] path = <<"assets", "bad.json">> -> Ok(BadData)
      [] path = <<"assets", "sprites", "ghost.json">> -> Ok(GhostData)
      [] path = <<"assets", "broken.json">> -> Err("ParseError")
      [] OTHER -> Err("ReadError")

\* File::open + png read_info of an image file
ReadPng(path) ==
    CASE path = <<"assets", "rock.png">> ->
            [exists |-> TRUE, decodes |-> TRUE, width |-> 3, height |-> 2]
      [] path = <<"assets", "hero.png">> ->
            [exists |-> TRUE, decodes |-> TRUE, width |-> 2, height |-> 1]
      [] path = <<"assets", "solo.png">> ->
            [exists |-> TRUE, decodes |-> TRUE, width |-> 1, height |-> 1]
      [] path = <<"assets", "corrupt.png">> ->
            [exists |-> TRUE, decodes |-> FALSE, width |-> 0, height |-> 0]
      [] OTHER -> [exists |-> FALSE, decodes |-> FALSE, width |-> 0, height |-> 0]

\* File::open of an image file in write_zip
FileExists(path) == ReadPng(path).exists

\* the bytes std::io::copy reads from the file at path
FileBytes(path) == <<"bytes of", path>>

\* ------------------------------------------------------------------- state

VARIABLES
    manifest,     \* parsed_index_file.0: the index entries, in file order
    cursor,       \* 1-based position of the for loop of main
    wl_models,    \* main's wl_models / atlas_content.models of write_zip
    image_paths,  \* main's image_paths / the image_paths of write_zip
    opened,       \* the input files main has tried to open, in order
    archive,      \* the entries started in the zip, in order: [name, data]
    stdout,       \* the "Packing model_id=..." lines of write_zip
    zcursor,      \* 1-based position of the for loop of write_zip
    pc,           \* "resolve", "write_zip", "zip_models", "done", "failed", "idle"
    err,          \* the error the run returned, [kind |-> "none"] while there is none
    call,         \* a direct call of one normalizer: its arguments
    ret           \* and its return value, [done |-> FALSE] before the call

mainvars == <<manifest, cursor, wl_models, image_paths, opened, archive,
              stdout, zcursor, pc, err>>
normvars == <<call, ret>>
vars == <<manifest, cursor, wl_models, image_paths, opened, archive,
          stdout, zcursor, pc, err, call, ret>>

NoErr == [kind |-> "none"]
NoCall == [fn |-> "none"]
NoRet == [done |-> FALSE]

\* --------------------------------------------------------------- input sets

ModelIds == {"hero", "rock"}
Anchor == [x |-> 8, y |-> 16]

DataFiles == {<<"hero.json">>, <<"solo.json">>, <<"bad.json">>,
              <<"sprites", "ghost.json">>, <<"broken.json">>, <<"nofile.json">>}
ImageFiles == {<<"rock.png">>, <<"corrupt.png">>, <<"nofile.png">>}

PixelEntry(model_id, data_file, anchor_point) ==
    [kind |-> "Pixel", model_id |-> model_id, data_file |-> data_file,
     anchor_point |-> anchor_point]
GraphicEntry(model_id, image_file) ==
    [kind |-> "Graphic", model_id |-> model_id, image_file |-> image_file]

IndexEntries ==
    { PixelEntry(m, d, Anchor) : m \in ModelIds, d \in DataFiles }
    \cup { GraphicEntry(m, i) : m \in ModelIds, i \in ImageFiles }

TagNames == {<<"a", "_", "w">>, <<"a", "_", "a", "_">>, <<"a", "_">>,
             <<"w", "a", "_">>, <<"a">>}
Tags == { Tag(n, f, t) : n \in TagNames, f \in 0..MaxIdx, t \in 0..MaxIdx }

AseCall(nframes, tags) ==
    [fn |-> "ase", ase_data |-> AseFile(nframes, tags, <<"sheet.png">>),
     model_id |-> "hero", anchor_point |-> Anchor]

\* the width and height of a decoded header: u32 words, zero excluded
Words == 1..(Pow2(WordBits) - 1)
PngCalls ==
    { [fn |-> "png", model_id |-> m,
       png |-> [exists |-> TRUE, decodes |-> TRUE, width |-> w, height |-> h]] :
         m \in ModelIds, w \in Words, h \in Words }
    \cup { [fn |-> "png", model_id |-> m,
            png |-> [exists |-> e, decodes |-> FALSE, width |-> 0, height |-> 0]] :
              m \in ModelIds, e \in BOOLEAN }

\* models handed to write_zip by a caller other than main
RawModels ==
    { [anchor_point |-> [x |-> 0, y |-> 0], model_id |-> m,
       frames |-> [k \in 1..n |-> WLFrameOf(SheetFrame(k))],
       animations |-> a] :
         m \in ModelIds, n \in 0..MaxFrames,
         a \in {<< >>, <<WLAnimation(IdleId, <<0>>)>>} }
RawPaths == {<<"assets", "rock.png">>, <<"assets", "nofile.png">>}

\* ----------------------------------------------------- the normalizers alone

InitNorm ==
    /\ \/ \E n \in 0..MaxFrames, k \in 0..MaxTags :
             \E tags \in [1..k -> Tags] : call = AseCall(n, tags)
       \/ call \in PngCalls
    /\ ret = NoRet
    /\ manifest = << >> /\ cursor = 1 /\ wl_models = << >> /\ image_paths = << >>
    /\ opened = << >> /\ archive = << >> /\ stdout = << >> /\ zcursor = 1
    /\ pc = "idle" /\ err = NoErr

CallAse ==
    /\ ~ret.done
    /\ call.fn = "ase"
    /\ ret' = [done |-> TRUE,
               res |-> gen_wl_model_from_ase_data(call.ase_data, call.model_id,
                                                  call.anchor_point)]
    /\ UNCHANGED <<call, mainvars>>

CallPng ==
    /\ ~ret.done
    /\ call.fn = "png"
    /\ ret' = [done |-> TRUE, res |-> gen_wl_model_from_png(call.model_id, call.png)]
    /\ UNCHANGED <<call, mainvars>>

NextNorm == CallAse \/ CallPng

SpecNorm == InitNorm /\ [][NextNorm]_vars

\* ------------------------------------------------------------------- main

Init ==
    /\ \E n \in 0..MaxEntries : manifest \in [1..n -> IndexEntries]
    /\ cursor = 1 /\ wl_models = << >> /\ image_paths = << >>
    /\ opened = << >> /\ archive = << >> /\ stdout = << >> /\ zcursor = 1
    /\ pc = "resolve" /\ err = NoErr
    /\ call = NoCall /\ ret = NoRet

\* what a failed entry would do if main logged the error and went on
SkipEntry(kind, paths) ==
    /\ pc' = pc
    /\ err' = [kind |-> kind, stage |-> "resolve", entry |-> cursor]
    /\ image_paths' = paths
    /\ cursor' = cursor + 1
    /\ UNCHANGED <<wl_models>>

\* the `?` of packer.rs 163, 166, 173, 180: main returns the error at once;
\* paths is image_paths as the failing entry left it
AbortEntry(kind, paths) ==
    /\ pc' = "failed"
    /\ err' = [kind |-> kind, stage |-> "resolve", entry |-> cursor]
    /\ image_paths' = paths
    /\ UNCHANGED <<cursor, wl_models>>

\* an entry pushed at the front of the two lists
KeepEntryFront(model, paths) ==
    /\ wl_models' = <<model>> \o wl_models
    /\ image_paths' = paths
    /\ cursor' = cursor + 1
    /\ UNCHANGED <<pc, err>>

\* packer.rs 185: wl_models.push(wl_model), and the loop goes on
KeepEntry(model, paths) ==
    /\ wl_models' = Append(wl_models, model)
    /\ image_paths' = paths
    /\ cursor' = cursor + 1
    /\ UNCHANGED <<pc, err>>

\* packer.rs 157-174: one iteration of the loop on a Pixel entry
ResolvePixel ==
    /\ pc = "resolve"
    /\ cursor <= Len(manifest)
    /\ manifest[cursor].kind = "Pixel"
    /\ LET entry == manifest[cursor]
           json_data_path == PathPush(PathPop(IndexFilePath), entry.data_file)
           read == ReadJson(json_data_path)
       IN  /\ opened' = Append(opened, json_data_path)
           /\ IF ~read.ok
              THEN AbortEntry(read.err, image_paths)
              ELSE LET aseprite_data == read.val
                       image_path == PathPush(PathPop(json_data_path),
                                              aseprite_data.meta.image_path)
                       pushed == Append(image_paths, image_path)
                       res == gen_wl_model_from_ase_data(aseprite_data,
                                  entry.model_id, entry.anchor_point)
                   IN  IF res.ok THEN KeepEntry(res.val, pushed)
                       ELSE AbortEntry(res.err, pushed)
    /\ UNCHANGED <<manifest, archive, stdout, zcursor, call, ret>>

\* packer.rs 175-183: one iteration of the loop on a Graphic entry
ResolveGraphic ==
    /\ pc = "resolve"
    /\ cursor <= Len(manifest)
    /\ manifest[cursor].kind = "Graphic"
    /\ LET entry == manifest[cursor]
           image_path == PathPush(PathPop(IndexFilePath), entry.image_file)
           res == gen_wl_model_from_png(entry.model_id, ReadPng(image_path))
       IN  /\ opened' = Append(opened, image_path)
           /\ IF res.ok THEN KeepEntry(res.val, Append(image_paths, image_path))
              ELSE AbortEntry(res.err, image_paths)
    /\ UNCHANGED <<manifest, archive, stdout, zcursor, call, ret>>

\* packer.rs 186-188: the loop is over, main calls write_zip
ResolveEnd ==
    /\ pc = "resolve"
    /\ cursor > Len(manifest)
    /\ pc' = "write_zip"
    /\ UNCHANGED <<manifest, cursor, wl_models, image_paths, opened, archive,
                   stdout, zcursor, err, call, ret>>

\* --------------------------------------------------------------- write_zip

\* packer.rs 105-106: index.json holds the serialized atlas
ZipIndex ==
    /\ pc = "write_zip"
    /\ archive' = <<[name |-> "index.json", data |-> <<"atlas", wl_models>>]>>
    /\ zcursor' = 1
    /\ pc' = "zip_models"
    /\ UNCHANGED <<manifest, cursor, wl_models, image_paths, opened, stdout,
                   err, call, ret>>

\* a guard that lets two-frame models through
EmitterRejectsLoose(model) ==
    Len(model.animations) = 0 /\ Len(model.frames) > 2

\* packer.rs 109-113: no animation and more than one frame
EmitterRejects(model) ==
    Len(model.animations) = 0 /\ Len(model.frames) > 1

\* packer.rs 114, 119: the line printed for a model
PackingLine(model) ==
    IF Len(model.animations) = 0
    THEN [model_id |-> model.model_id, branch |-> "default idle"]
    ELSE [model_id |-> model.model_id, branch |-> "animations",
          ids |-> [k \in 1..Len(model.animations) |->
                      model.animations[k].animation_id]]

\* packer.rs 108-127: one iteration of the loop over models.zip(image_paths)
ZipModel ==
    /\ pc = "zip_models"
    /\ zcursor <= Min(Len(wl_models), Len(image_paths))
    /\ LET model == wl_models[zcursor]
           image_path == image_paths[zcursor]
       IN  IF EmitterRejects(model)
           THEN /\ pc' = "failed"
                /\ err' = [kind |-> "ValidationError", stage |-> "write_zip",
                           entry |-> zcursor]
                /\ UNCHANGED <<archive, stdout, zcursor>>
           ELSE /\ stdout' = Append(stdout, PackingLine(model))
                /\ IF FileExists(image_path)
                   THEN /\ archive' = Append(archive,
                                [name |-> PngName(model.model_id),
                                 data |-> FileBytes(image_path)])
                        /\ zcursor' = zcursor + 1
                        /\ UNCHANGED <<pc, err>>
                   ELSE /\ archive' = Append(archive,
                                [name |-> PngName(model.model_id),
                                 data |-> << >>])
                        /\ pc' = "failed"
                        /\ err' = [kind |-> "ReadError", stage |-> "write_zip",
                                   entry |-> zcursor]
                        /\ UNCHANGED zcursor
    /\ UNCHANGED <<manifest, cursor, wl_models, image_paths, opened, call, ret>>

\* packer.rs 129, 191-193: the zip is exhausted, Ok(()) all the way up
ZipEnd ==
    /\ pc = "zip_models"
    /\ zcursor > Min(Len(wl_models), Len(image_paths))
    /\ pc' = "done"
    /\ UNCHANGED <<manifest, cursor, wl_models, image_paths, opened, archive,
                   stdout, zcursor, err, call, ret>>

Next == ResolvePixel \/ ResolveGraphic \/ ResolveEnd \/ ZipIndex \/ ZipModel \/ ZipEnd

Spec == Init /\ [][Next]_vars

\* ------------------------------------------ write_zip on any lists of models

InitZip ==
    /\ \E n \in 0..MaxModels : wl_models \in [1..n -> RawModels]
    /\ \E n \in 0..MaxModels : image_paths \in [1..n -> RawPaths]
    /\ manifest = << >> /\ cursor = 1
    /\ opened = << >> /\ archive = << >> /\ stdout = << >> /\ zcursor = 1
    /\ pc = "write_zip" /\ err = NoErr
    /\ call = NoCall /\ ret = NoRet

NextZip == ZipIndex \/ ZipModel \/ ZipEnd

SpecZip == InitZip /\ [][NextZip]_vars

\* --------------------- a run of main, or one direct call of a normalizer

InitAll == Init \/ InitNorm

NextAll == Next \/ NextNorm

SpecAll == InitAll /\ [][NextAll]_vars

\* ================================================================== claims

\* a tag names an animation when its name starts with "a_"
Qualifies(tag) ==
    Len(tag.name) >= 2 /\ tag.name[1] = "a" /\ tag.name[2] = "_"

QualifyingTags(tags) == SelectSeq(tags, Qualifies)

AseReturned == ret.done /\ call.fn = "ase"
PngReturned == ret.done /\ call.fn = "png"

\* C1: a sprite sheet with 2 or more frames and no tag starting with "a_"
\* makes gen_wl_model_from_ase_data return a validation error and no model,
\* whatever its other tags are.
C1_ManyFramesNoAnimationFails ==
    (AseReturned /\ Len(call.ase_data.frames) >= 2
       /\ QualifyingTags(call.ase_data.meta.tags) = << >>)
    => ret.res = [ok |-> FALSE, err |-> "ValidationError"]

C1_Witness ==
    /\ AseReturned
    /\ Len(call.ase_data.frames) >= 2
    /\ Len(call.ase_data.meta.tags) = 2
    /\ QualifyingTags(call.ase_data.meta.tags) = << >>
    /\ ~ret.res.ok

\* the model invariant of the data model
ModelInvariant(m) ==
    IF m.animations /= << >>
    THEN \A a \in 1..Len(m.animations) :
            \A k \in 1..Len(m.animations[a].frames) :
               /\ m.animations[a].frames[k] >= 0
               /\ m.animations[a].frames[k] < Len(m.frames)
    ELSE Len(m.frames) <= 1

\* C2: every model a normalizer returns, on either path, satisfies the model
\* invariant: with animations, every frame index is below the frame count;
\* without, there is at most one frame.
C2_EmittedModelInvariant ==
    (ret.done /\ ret.res.ok) => ModelInvariant(ret.res.val)

\* frames is the ascending sequence from, from+1, ..., to
IsRangeOf(frames, from, to) ==
    /\ Len(frames) = to - from + 1
    /\ \A k \in 1..Len(frames) : frames[k] = from + k - 1

\* C3 (as stated): for every qualifying tag the emitted frame indices are
\* from, from+1, ..., to and the range is recovered from them: the first
\* emitted index is from and the last is to.
C3_RangeRecoveredAlways ==
    AseReturned =>
      LET q == QualifyingTags(call.ase_data.meta.tags)
      IN  q /= << >> =>
            /\ ret.res.ok
            /\ Len(ret.res.val.animations) = Len(q)
            /\ \A j \in 1..Len(q) :
                 LET frames == ret.res.val.animations[j].frames
                 IN  /\ Len(frames) >= 1
                     /\ IsRangeOf(frames, q[j].from, q[j].to)
                     /\ frames[1] = q[j].from
                     /\ frames[Len(frames)] = q[j].to

\* C3 (amended): for every qualifying tag with from <= to the emitted frame
\* indices are from, from+1, ..., to, first index from and last index to;
\* for a qualifying tag with from > to the emitted sequence is empty.
C3_RangeOfOrderedTag ==
    AseReturned =>
      LET q == QualifyingTags(call.ase_data.meta.tags)
      IN  q /= << >> =>
            /\ ret.res.ok
            /\ Len(ret.res.val.animations) = Len(q)
            /\ \A j \in 1..Len(q) :
                 LET frames == ret.res.val.animations[j].frames
                 IN  IF q[j].from <= q[j].to
                     THEN /\ IsRangeOf(frames, q[j].from, q[j].to)
                          /\ frames[1] = q[j].from
                          /\ frames[Len(frames)] = q[j].to
                     ELSE frames = << >>

C3_Witness ==
    /\ AseReturned
    /\ ret.res.ok
    /\ LET q == QualifyingTags(call.ase_data.meta.tags)
       IN  /\ Len(q) = 2
           /\ q[1].from > q[1].to
           /\ q[2].from < q[2].to
           /\ Len(ret.res.val.animations[2].frames) = 2

\* the name without its first two characters
Unprefixed(name) == [k \in 1..(Len(name) - 2) |-> name[k + 2]]

\* C4: with at least one qualifying tag, the model has one animation per
\* qualifying tag, in the order of the tags, each named by the tag name
\* without the prefix; other tags add nothing and no "idle" is added.
C4_OneAnimationPerQualifyingTag ==
    AseReturned =>
      LET q == QualifyingTags(call.ase_data.meta.tags)
      IN  q /= << >> =>
            /\ ret.res.ok
            /\ Len(ret.res.val.animations) = Len(q)
            /\ \A j \in 1..Len(q) :
                 ret.res.val.animations[j].animation_id = Unprefixed(q[j].name)

C4_Witness ==
    /\ AseReturned
    /\ ret.res.ok
    /\ LET tags == call.ase_data.meta.tags
       IN  /\ Len(tags) = 2
           /\ ~Qualifies(tags[1])
           /\ tags[2].name = <<"a", "_", "a", "_">>
           /\ Len(ret.res.val.animations) = 1

\* C5: one frame and no qualifying tag: the call succeeds and the animation
\* list is exactly one animation "idle" with frames [0].
C5_SingleFrameGetsIdle ==
    (AseReturned /\ Len(call.ase_data.frames) = 1
       /\ QualifyingTags(call.ase_data.meta.tags) = << >>)
    => /\ ret.res.ok
       /\ ret.res.val.animations =
            <<[animation_id |-> <<"i", "d", "l", "e">>, frames |-> <<0>>]>>

C5_Witness ==
    /\ AseReturned
    /\ Len(call.ase_data.frames) = 1
    /\ Len(call.ase_data.meta.tags) >= 1
    /\ QualifyingTags(call.ase_data.meta.tags) = << >>
    /\ ret.res.ok

\* C8: a static image whose header is read gives one frame (0, 0, width,
\* height) of duration 1000, one animation "idle" [0] and anchor (0, 0).
C8_StaticImageModel ==
    (PngReturned /\ call.png.exists /\ call.png.decodes)
    => /\ ret.res.ok
       /\ ret.res.val.frames =
            <<[duration |-> 1000,
               rect |-> [x |-> 0, y |-> 0,
                         w |-> call.png.width, h |-> call.png.height]]>>
       /\ ret.res.val.animations =
            <<[animation_id |-> <<"i", "d", "l", "e">>, frames |-> <<0>>]>>
       /\ ret.res.val.anchor_point = [x |-> 0, y |-> 0]

\* the index entries whose files make reading or normalizing fail
FailingEntry(e) ==
    \/ e.kind = "Pixel"
         /\ e.data_file \in {<<"bad.json">>, <<"broken.json">>, <<"nofile.json">>}
    \/ e.kind = "Graphic"
         /\ e.image_file \in {<<"corrupt.png">>, <<"nofile.png">>}

\* the input file main opens for an entry
InputFileOf(e) ==
    IF e.kind = "Pixel" THEN <<"assets">> \o e.data_file
    ELSE <<"assets">> \o e.image_file

\* C6: when reading or normalizing the k-th index entry fails the run stops
\* there: no later entry is read or normalized and the archive gets nothing,
\* neither index.json nor an image.
C6_FailFastNoArchive ==
    \A k \in 1..Len(manifest) :
      FailingEntry(manifest[k]) =>
        /\ cursor <= k
        /\ Len(wl_models) < k
        /\ Len(opened) <= k
        /\ \A j \in 1..Len(opened) : opened[j] = InputFileOf(manifest[j])
        /\ archive = << >>
        /\ stdout = << >>
        /\ pc \in {"resolve", "failed"}
        /\ pc = "failed" => (err.stage = "resolve" /\ err.entry <= k)
        /\ Len(opened) = k => (pc = "failed" /\ err.entry = k)

C6_Witness ==
    /\ pc = "failed"
    /\ Len(manifest) = 3
    /\ err.stage = "resolve" /\ err.entry = 2
    /\ ~FailingEntry(manifest[3])
    /\ Len(opened) = 2 /\ Len(wl_models) = 1

\* the image an entry's model is packed with
ImagePathOf(e) ==
    IF e.kind = "Graphic" THEN <<"assets">> \o e.image_file
    ELSE CASE e.data_file = <<"hero.json">> -> <<"assets", "hero.png">>
           [] e.data_file = <<"solo.json">> -> <<"assets", "solo.png">>
           [] e.data_file = <<"sprites", "ghost.json">> ->
                 <<"assets", "sprites", "ghost.png">>
           [] OTHER -> << >>

\* C7: once the whole index is processed, the models and the image paths
\* handed to write_zip are as many as the index entries, the N-th model and
\* the N-th image path are those of the N-th entry, and the N-th image entry
\* of the archive is <model_id>.png of the N-th entry, filled from its image.
C7_OrderPreserved ==
    pc \in {"write_zip", "zip_models", "done"} =>
      /\ Len(wl_models) = Len(manifest)
      /\ Len(image_paths) = Len(manifest)
      /\ \A n \in 1..Len(manifest) :
           /\ wl_models[n].model_id = manifest[n].model_id
           /\ image_paths[n] = ImagePathOf(manifest[n])
      /\ Len(archive) <= Len(manifest) + 1
      /\ \A n \in 1..(Len(archive) - 1) :
           /\ archive[n + 1].name = manifest[n].model_id \o ".png"
           /\ archive[n + 1].data = <<"bytes of", ImagePathOf(manifest[n])>>
      /\ pc = "done" => /\ Len(archive) = Len(manifest) + 1
                        /\ archive[1].name = "index.json"

C7_Witness ==
    /\ pc = "done"
    /\ Len(manifest) = 3
    /\ manifest[1].kind = "Pixel" /\ manifest[2].kind = "Graphic"
    /\ manifest[1].model_id /= manifest[2].model_id
    /\ Len(archive) = 4

\* the emitter's test of a model
Inconsistent(m) == m.animations = << >> /\ Len(m.frames) > 1

\* C9: write_zip takes the models in list order and returns an error at the
\* first model without animations and with more than one frame, before it
\* writes the image entry of that model or of a later one.
C9_EmitterRejectsInconsistentModel ==
    /\ \A j \in 1..Len(wl_models) :
         Inconsistent(wl_models[j]) =>
           /\ zcursor <= j
           /\ Len(archive) <= j
           /\ pc /= "done" \/ j > Len(image_paths)
    /\ \A n \in 2..Len(archive) :
         archive[n].name = wl_models[n - 1].model_id \o ".png"
    /\ (pc = "failed" /\ err.kind = "ValidationError") =>
         /\ Inconsistent(wl_models[err.entry])
         /\ \A j \in 1..(err.entry - 1) : ~Inconsistent(wl_models[j])
         /\ Len(archive) = err.entry
    /\ (pc = "zip_models" /\ zcursor <= Len(wl_models) /\ zcursor <= Len(image_paths)
          /\ Inconsistent(wl_models[zcursor])) =>
         ~(ENABLED ZipEnd)

C9_Witness ==
    /\ pc = "failed"
    /\ err.kind = "ValidationError" /\ err.entry = 2
    /\ Len(wl_models) = 2 /\ Len(image_paths) = 2
    /\ Len(archive) = 2

\* C10: every model a normalizer returns has at least one animation, so in a
\* run of main write_zip never rejects a model and never prints the
\* "one default idle animation" line.
C10_NormalizedModelsHaveAnimations ==
    /\ (ret.done /\ ret.res.ok) => ret.res.val.animations /= << >>
    /\ \A n \in 1..Len(wl_models) : wl_models[n].animations /= << >>
    /\ ~(err.kind = "ValidationError" /\ err.stage = "write_zip")
    /\ \A n \in 1..Len(stdout) : stdout[n].branch /= "default idle"

C10_Witness ==
    /\ pc = "done"
    /\ Len(manifest) = 2
    /\ manifest[1].kind = "Pixel" /\ manifest[1].data_file = <<"solo.json">>
    /\ manifest[2].kind = "Graphic"
    /\ Len(stdout) = 2

====
